---- MODULE Spec2Model ----
(***************************************************************************)
(* Quality definition settings of the Sonarr plugin                        *)
(* (buildarr_sonarr/config/quality.py): construction of a                  *)
(* QualityDefinition, loading defaults from TRaSH-Guides metadata          *)
(* (_render), and the from_remote / update_remote reconciliation against   *)
(* the server's /api/v3/qualitydefinition records.                         *)
(*                                                                         *)
(* Optional[T] values are encoded as sequences: None is <<>> and a value v *)
(* is <<v>>.  Sizes are integers (MB/min).                                 *)
(***************************************************************************)
EXTENDS Integers, Sequences, FiniteSets, TLC

VARIABLES
    \* --- QualityDefinition(...) construction ---
    args,                      \* keyword arguments given to QualityDefinition(...)
    result,                    \* outcome of the construction
    \* --- SonarrQualitySettingsConfig ---
    trash_id,                  \* self.trash_id
    definitions,               \* self.definitions (quality name -> QualityDefinition)
    metadata_dir,              \* documents of <trash_metadata_dir>/docs/json/sonarr/quality-size
    render_result,             \* outcome of _render
    \* --- reconciliation run ---
    server,                    \* the server's records: id -> JSON object
    remote,                    \* from_remote(...).definitions
    remote_definitions_json,   \* update_remote's own snapshot: id -> JSON object
    todo,                      \* quality names update_remote still has to visit
    changed,                   \* update_remote's local `changed`
    puts,                      \* api_put calls of the current run: <<id, body, remote_attrs>>
    pc,                        \* position of the run
    run                        \* number of the current reconciliation run

vars == <<args, result, trash_id, definitions, metadata_dir, render_result,
          server, remote, remote_definitions_json, todo, changed, puts, pc, run>>

ctor_vars == <<args, result>>
config_vars == <<trash_id, definitions, metadata_dir, render_result>>
run_vars == <<server, remote, remote_definitions_json, todo, changed, puts, pc, run>>

----------------------------------------------------------------------------
(* Optional values *)

None == <<>>
Some(v) == <<v>>
Val(o) == o[1]

----------------------------------------------------------------------------
(* QualityDefinition *)

QUALITYDEFINITION_MIN_MAX == 1998
QUALITYDEFINITION_MAX == 2000

\* The documented upper limit of `min` ("the maximum value is `399`").
DOCUMENTED_MIN_MAX == 399

\* Python's builtin min(a, b)
PyMin(a, b) == IF a <= b THEN a ELSE b

\* The clamped maximum that validate_max compares with `min`.
quality_max(value) ==
    IF value # None THEN PyMin(Val(value), QUALITYDEFINITION_MAX)
    ELSE QUALITYDEFINITION_MAX

\* The check of validate_max with `<= 1` in place of `< 1`.
GapTooSmall_GapOfOneRejected(value, quality_min) == (quality_max(value) - quality_min) <= 1

\* The condition under which validate_max raises ValueError.
GapTooSmall(value, quality_min) == (quality_max(value) - quality_min) < 1

\* validate_max: [raised, value]; a maximum that reaches the ceiling becomes None.
validate_max(value, quality_min) ==
    IF GapTooSmall(value, quality_min)
    THEN [raised |-> TRUE, value |-> value]
    ELSE [raised |-> FALSE,
          value |-> IF value # None /\ quality_max(value) >= QUALITYDEFINITION_MAX
                    THEN None ELSE value]

\* Field(ge=0, le=QUALITYDEFINITION_MIN_MAX) of `min`
MinFieldOk(m) == m >= 0 /\ m <= QUALITYDEFINITION_MIN_MAX

\* Field(ge=0) of `preferred` (the second declaration replaces the first)
PreferredFieldOk(p) == p >= 0

\* Optional[Field(ge=1, le=QUALITYDEFINITION_MAX)] of `max`
MaxFieldOk(m) == m = None \/ (Val(m) >= 1 /\ Val(m) <= QUALITYDEFINITION_MAX)

\* QualityDefinition(title=..., min=..., preferred=..., max=...), title in
\* model_fields_set iff title_set.  Fields are validated in declaration order
\* (title, min, preferred, max); validate_max runs after the constraints of
\* `max` passed and reads info.data["min"], which is missing (KeyError) when
\* `min` was rejected.
QualityDefinition(a) ==
    IF ~MaxFieldOk(a.max) \/ (MinFieldOk(a.min) /\ ~PreferredFieldOk(a.preferred))
    THEN [status |-> "field_error"]
    ELSE IF ~MinFieldOk(a.min) THEN [status |-> "key_error"]
    ELSE IF validate_max(a.max, a.min).raised THEN [status |-> "range_error"]
    ELSE [status |-> "ok",
          value |-> [title |-> a.title, title_set |-> a.title_set, min |-> a.min,
                     preferred |-> a.preferred,
                     max |-> validate_max(a.max, a.min).value]]

----------------------------------------------------------------------------
(* Quality names and values of the model *)

\* Quality names ("Quality" column), in a fixed order.
QualityNames == <<"Bluray-480p", "SDTV", "WEBDL-720p", "HDTV-1080p">>

\* Distance from each boundary value up to which sizes are tried.
Spread == 1

Near(b) == (b - Spread)..(b + Spread)

\* Sizes around the limits of the fields.
SizeInputs ==
    Near(0) \cup Near(1) \cup Near(DOCUMENTED_MIN_MAX)
        \cup Near(QUALITYDEFINITION_MIN_MAX) \cup Near(QUALITYDEFINITION_MAX)

\* State of the parts of the program a specification does not exercise.
CtorIdle == args = None /\ result = None

\* _render has not been called: no outcome, no trash ID in an error message.
RenderPending == [status |-> "none", id |-> None]

ConfigIdle ==
    /\ trash_id = None
    /\ definitions = <<>>
    /\ metadata_dir = <<>>
    /\ render_result = RenderPending

RunIdle ==
    /\ server = <<>>
    /\ remote = <<>>
    /\ remote_definitions_json = <<>>
    /\ todo = <<>>
    /\ changed = FALSE
    /\ puts = <<>>
    /\ pc = "idle"
    /\ run = 0

----------------------------------------------------------------------------
(* Constructing one QualityDefinition *)

InitValidate ==
    /\ args \in [title : {None}, title_set : {FALSE}, min : SizeInputs,
                 preferred : Near(0),
                 max : {None} \cup {Some(m) : m \in SizeInputs}]
    /\ result = None
    /\ ConfigIdle
    /\ RunIdle

Construct ==
    /\ result = None
    /\ result' = Some(QualityDefinition(args))
    /\ UNCHANGED <<args, config_vars, run_vars>>

NextValidate == Construct

SpecValidate == InitValidate /\ [][NextValidate]_vars

----------------------------------------------------------------------------
(* C7, C8: the limits of a QualityDefinition *)

\* The effective maximum as the claim defines it.
ClaimEffectiveMax(m) ==
    IF m = None THEN QUALITYDEFINITION_MAX
    ELSE IF Val(m) < QUALITYDEFINITION_MAX THEN Val(m) ELSE QUALITYDEFINITION_MAX

ArgsInDomain ==
    MinFieldOk(args.min) /\ PreferredFieldOk(args.preferred) /\ MaxFieldOk(args.max)

\* C7: with effective_max = min(max, 2000), or 2000 when max is unset, the
\* construction of a tier fails whenever effective_max - min < 1 (with the
\* range error of validate_max when every field is inside its own limits),
\* the range error is never raised when the gap is >= 1, and every tier that
\* is constructed satisfies (max, or 2000 if max is None) - min >= 1.
C7_GapRule ==
    result # None =>
        LET r == Val(result)
            gap == ClaimEffectiveMax(args.max) - args.min
        IN  /\ gap < 1 => r.status # "ok"
            /\ (gap < 1 /\ ArgsInDomain) => r.status = "range_error"
            /\ gap >= 1 => r.status # "range_error"
            /\ r.status = "ok" => ClaimEffectiveMax(r.value.max) - r.value.min >= 1

\* A construction with every field inside its limits that validate_max rejects.
C7_Witness ==
    /\ result # None
    /\ ArgsInDomain
    /\ args.max # None
    /\ Val(result).status = "range_error"

\* C8: a tier is constructed only when 0 <= min <= 399; every min above 399
\* is rejected.
C8_MinAtMost399 ==
    (result # None /\ Val(result).status = "ok") =>
        (args.min >= 0 /\ args.min <= DOCUMENTED_MIN_MAX)

----------------------------------------------------------------------------
(* _render: loading defaults from the TRaSH-Guides metadata *)

\* str.lower() on the characters trash IDs are written with.
LowerChar(c) ==
    CASE c = "A" -> "a"
      [] c = "B" -> "b"
      [] c = "C" -> "c"
      [] OTHER -> c

\* str.lower(): the string (a sequence of characters) with every character lowered.
Lower(str) == [i \in DOMAIN str |-> LowerChar(str[i])]

\* quality_json["trash_id"].lower() == self.trash_id
TrashIdMatches(quality_json, id) == Lower(quality_json.trash_id) = id

\* mapping[name] = value
DictSet(mapping, name, value) ==
    [n \in (DOMAIN mapping) \cup {name} |-> IF n = name THEN value ELSE mapping[n]]

\* The loop's test left out: every entry of the document is stored.
MustFill_Always(defs, definition_name) == TRUE

\* definition_name not in self.definitions
MustFill(defs, definition_name) == definition_name \notin DOMAIN defs

\* The loop over quality_json["qualities"]: [definitions, raised].  A
\* QualityDefinition that fails validation ends the loop with the entries
\* filled so far.
RECURSIVE FillDefaults(_, _)
FillDefaults(defs, qualities) ==
    IF qualities = <<>> THEN [definitions |-> defs, raised |-> FALSE]
    ELSE LET definition_json == Head(qualities)
             definition_name == definition_json.quality
             made == QualityDefinition([title |-> None, title_set |-> TRUE,
                                        min |-> definition_json.min,
                                        preferred |-> definition_json.preferred,
                                        max |-> Some(definition_json.max)])
         IN  IF ~MustFill(defs, definition_name)
             THEN FillDefaults(defs, Tail(qualities))
             ELSE IF made.status # "ok"
             THEN [definitions |-> defs, raised |-> TRUE]
             ELSE FillDefaults(DictSet(defs, definition_name, made.value),
                               Tail(qualities))

\* Positions, in iteration order, of the documents with the configured trash ID.
MatchingFiles(dir, id) == {i \in DOMAIN dir : TrashIdMatches(dir[i], id)}

SetMin(S) == CHOOSE x \in S : \A y \in S : x <= y

\* _render without a trash_id: return at once.
RenderUnconfigured ==
    /\ render_result = RenderPending
    /\ trash_id = None
    /\ render_result' = [status |-> "ok", id |-> None]
    /\ UNCHANGED <<trash_id, definitions, metadata_dir, ctor_vars, run_vars>>

\* _render, a document matches: fill the absent names from the first match.
RenderFound ==
    /\ render_result = RenderPending
    /\ trash_id # None
    /\ MatchingFiles(metadata_dir, Val(trash_id)) # {}
    /\ LET quality_json == metadata_dir[SetMin(MatchingFiles(metadata_dir, Val(trash_id)))]
           filled == FillDefaults(definitions, quality_json.qualities)
       IN  /\ definitions' = filled.definitions
           /\ render_result' = [status |-> IF filled.raised THEN "ValidationError" ELSE "ok",
                                 id |-> None]
    /\ UNCHANGED <<trash_id, metadata_dir, ctor_vars, run_vars>>

\* _render, no document matches, without the raise: the call returns normally.
RenderNotFound_ReturnsSilently ==
    /\ render_result = RenderPending
    /\ trash_id # None
    /\ MatchingFiles(metadata_dir, Val(trash_id)) = {}
    /\ render_result' = [status |-> "ok", id |-> None]
    /\ UNCHANGED <<trash_id, definitions, metadata_dir, ctor_vars, run_vars>>

\* _render, no document matches: ConfigTrashIDNotFoundError naming the ID.
RenderNotFound ==
    /\ render_result = RenderPending
    /\ trash_id # None
    /\ MatchingFiles(metadata_dir, Val(trash_id)) = {}
    /\ render_result' = [status |-> "ConfigTrashIDNotFoundError", id |-> trash_id]
    /\ UNCHANGED <<trash_id, definitions, metadata_dir, ctor_vars, run_vars>>

\* Number of documents in the metadata directory, at most.
MaxDocs == 2

SeqsUpTo(S, n) == UNION {[1..k -> S] : k \in 0..n}

\* A validated QualityDefinition of the configuration file.
Tier(title, title_set, min, preferred, max) ==
    QualityDefinition([title |-> title, title_set |-> title_set, min |-> min,
                       preferred |-> preferred, max |-> max]).value

\* Entries of quality-size documents: one for the first quality, and two for
\* the second: one whose max is the ceiling and one that fails validation.
DefaultEntries ==
    { [quality |-> QualityNames[1], min |-> 2, preferred |-> 95, max |-> 100],
      [quality |-> QualityNames[2], min |-> 5, preferred |-> 95,
       max |-> QUALITYDEFINITION_MAX],
      [quality |-> QualityNames[2], min |-> 100, preferred |-> 95, max |-> 100] }

QualityLists ==
    {<<>>} \cup {<<e>> : e \in DefaultEntries}
           \cup {<<e, f>> : e \in DefaultEntries, f \in DefaultEntries}

QualityFiles ==
    [trash_id : {<<"A", "1">>, <<"b", "2">>}, qualities : QualityLists]

\* Definitions written by the user, before defaults are loaded.
UserDefinitions ==
    { <<>>,
      [n \in {QualityNames[1]} |-> Tier(Some("Blu"), TRUE, 1, 50, Some(50))],
      [n \in {QualityNames[1], QualityNames[2]} |->
          IF n = QualityNames[1] THEN Tier(Some("Blu"), TRUE, 1, 50, Some(50))
          ELSE Tier(None, FALSE, 5, 95, None)] }

InitRender ==
    /\ trash_id \in {None, Some(<<"a", "1">>), Some(<<"b", "2">>), Some(<<"c", "3">>)}
    /\ definitions \in UserDefinitions
    /\ metadata_dir \in SeqsUpTo(QualityFiles, MaxDocs)
    /\ render_result = RenderPending
    /\ CtorIdle
    /\ RunIdle

NextRender == RenderUnconfigured \/ RenderFound \/ RenderNotFound

SpecRender == InitRender /\ [][NextRender]_vars

----------------------------------------------------------------------------
(* C5, C6: loading defaults *)

\* The document the claims call "the matching external document": the first,
\* in iteration order, whose ID equals the reference ID case-insensitively.
ClaimMatches(dir, id) == {i \in DOMAIN dir : Lower(dir[i].trash_id) = Lower(id)}

ClaimDocument(dir, id) == dir[SetMin(ClaimMatches(dir, id))]

\* The first entry of a document for a quality name.
FirstEntry(doc, name) ==
    doc.qualities[SetMin({j \in DOMAIN doc.qualities : doc.qualities[j].quality = name})]

DocumentNames(doc) == {doc.qualities[j].quality : j \in DOMAIN doc.qualities}

\* C5: a _render that returns with a matching document leaves every quality
\* name that was a key of definitions mapped to the same tier, maps every
\* other quality name of the document to a tier with the document's
\* min/preferred/max (a max at the ceiling stored as None) and no title, and
\* adds or removes no other key.
C5_DefaultsNeverOverwrite ==
    [][ ( /\ render_result = RenderPending
          /\ trash_id # None
          /\ ClaimMatches(metadata_dir, Val(trash_id)) # {}
          /\ render_result'.status = "ok" )
        => LET doc == ClaimDocument(metadata_dir, Val(trash_id))
           IN  /\ \A n \in DOMAIN definitions :
                    n \in DOMAIN definitions' /\ definitions'[n] = definitions[n]
               /\ \A n \in DocumentNames(doc) \ DOMAIN definitions :
                    /\ n \in DOMAIN definitions'
                    /\ definitions'[n].title = None
                    /\ definitions'[n].min = FirstEntry(doc, n).min
                    /\ definitions'[n].preferred = FirstEntry(doc, n).preferred
                    /\ definitions'[n].max =
                         IF FirstEntry(doc, n).max >= QUALITYDEFINITION_MAX THEN None
                         ELSE Some(FirstEntry(doc, n).max)
               /\ DOMAIN definitions' = (DOMAIN definitions) \cup DocumentNames(doc)
      ]_vars

\* Defaults were loaded over a user's override: the document has values for
\* the first quality, which the user defined, and filled in the second one.
C5_Witness ==
    /\ render_result.status = "ok"
    /\ trash_id # None
    /\ ClaimMatches(metadata_dir, Val(trash_id)) # {}
    /\ QualityNames[1] \in DocumentNames(ClaimDocument(metadata_dir, Val(trash_id)))
    /\ QualityNames[1] \in DOMAIN definitions
    /\ definitions[QualityNames[1]].title = Some("Blu")
    /\ QualityNames[2] \in DOMAIN definitions
    /\ definitions[QualityNames[2]].title_set

\* C6: _render with a trash ID that matches no document of the directory
\* (an empty directory included) raises ConfigTrashIDNotFoundError naming the
\* ID and leaves definitions as they were.
C6_UnmatchedIdFails ==
    [][ ( /\ render_result = RenderPending
          /\ trash_id # None
          /\ ClaimMatches(metadata_dir, Val(trash_id)) = {} )
        => ( /\ render_result'.status = "ConfigTrashIDNotFoundError"
             /\ render_result'.id = trash_id
             /\ definitions' = definitions )
      ]_vars

\* The error was raised with documents in the directory and user definitions.
C6_Witness ==
    /\ render_result.status = "ConfigTrashIDNotFoundError"
    /\ metadata_dir # <<>>
    /\ definitions # <<>>

----------------------------------------------------------------------------
(* The server and the API *)

\* api_get(secrets, "/api/v3/qualitydefinition"): the records, in ID order.
api_get(srv) == srv

\* api_put(secrets, "/api/v3/qualitydefinition/<id>", body): the record with
\* that ID is replaced by the body.
api_put(srv, definition_id, body) == [srv EXCEPT ![definition_id] = body]

\* definition_json.get("maxSize", None)
GetMaxSize(definition_json) ==
    IF "maxSize" \in DOMAIN definition_json THEN definition_json.maxSize ELSE None

\* The title from_remote gives a tier: None when the server's title is the
\* quality name.
RemoteTitle(definition_json) ==
    IF definition_json.title # definition_json.quality.name
    THEN Some(definition_json.title)
    ELSE None

\* The QualityDefinition(...) from_remote builds of one record.
RemoteDefinition(definition_json) ==
    QualityDefinition([title |-> RemoteTitle(definition_json), title_set |-> TRUE,
                       min |-> definition_json.minSize,
                       preferred |-> definition_json.preferredSize,
                       max |-> GetMaxSize(definition_json)])

\* from_remote: [raised, definitions], definitions keyed by quality name.
from_remote(srv) ==
    LET records == api_get(srv)
        names == {records[i].quality.name : i \in DOMAIN records}
        of(n) == records[CHOOSE i \in DOMAIN records :
                            /\ records[i].quality.name = n
                            /\ \A j \in DOMAIN records :
                                 records[j].quality.name = n => j <= i]
    IN  IF \E i \in DOMAIN records : RemoteDefinition(records[i]).status # "ok"
        THEN [raised |-> TRUE, definitions |-> <<>>]
        ELSE [raised |-> FALSE,
              definitions |-> [n \in names |-> RemoteDefinition(of(n)).value]]

\* definition_ids[definition_name]
definition_ids(json_by_id, definition_name) ==
    CHOOSE i \in DOMAIN json_by_id :
        /\ json_by_id[i].quality.name = definition_name
        /\ \A j \in DOMAIN json_by_id :
             json_by_id[j].quality.name = definition_name => j <= i

----------------------------------------------------------------------------
(* get_update_remote_attrs with update_remote's remote_map                  *)
(*                                                                         *)
(* The method is inherited from buildarr's ConfigBase.  For each entry of  *)
(* remote_map it skips an attribute the configuration does not set         *)
(* (check_unmanaged is not passed on), compares the local attribute with   *)
(* the same attribute of `remote` as they are, and for one that differs    *)
(* reports updated and puts the local value, passed through the entry's    *)
(* encoder, under the remote attribute name.  The encoder takes no part in *)
(* the comparison.                                                         *)

\* remote_map: local attribute -> remote attribute
remote_map == [title |-> "title", min |-> "minSize", preferred |-> "preferredSize",
               max |-> "maxSize"]

LocalAttrs == DOMAIN remote_map

\* "encoder": lambda v: v or definition_name
TitleEncoder(v, definition_name) ==
    IF v = None \/ Val(v) = "" THEN definition_name ELSE Val(v)

\* The value sent for a local attribute.
Encode(attr, local_definition, definition_name) ==
    IF attr = "title" THEN TitleEncoder(local_definition.title, definition_name)
    ELSE local_definition[attr]

\* An attribute is managed when the configuration sets it (model_fields_set);
\* min, preferred and max are required fields.
Managed(attr, local_definition) == attr # "title" \/ local_definition.title_set

\* The local attributes get_update_remote_attrs reports as changed: managed,
\* and the local value differs from the remote tier's value.
ChangedAttrs(local_definition, remote_definition) ==
    {attr \in LocalAttrs :
        /\ Managed(attr, local_definition)
        /\ local_definition[attr] # remote_definition[attr]}

\* get_update_remote_attrs(...): (updated, remote_attrs)
get_update_remote_attrs(definition_name, local_definition, remote_definition) ==
    LET attrs == ChangedAttrs(local_definition, remote_definition)
    IN  [updated |-> attrs # {},
         remote_attrs |->
            [k \in {remote_map[attr] : attr \in attrs} |->
                Encode(CHOOSE attr \in attrs : remote_map[attr] = k,
                       local_definition, definition_name)]]

----------------------------------------------------------------------------
(* A reconciliation run: from_remote, then update_remote *)

\* Number of reconciliation runs, at most.
MaxRuns == 2

\* The merge with its operands swapped: {**remote_attrs, **record}.
MergeBody_RecordWins(definition_json, remote_attrs) ==
    [k \in (DOMAIN definition_json) \cup (DOMAIN remote_attrs) |->
        IF k \in DOMAIN definition_json THEN definition_json[k] ELSE remote_attrs[k]]

\* {**remote_definitions_json[definition_id], **remote_attrs}
MergeBody(definition_json, remote_attrs) ==
    [k \in (DOMAIN definition_json) \cup (DOMAIN remote_attrs) |->
        IF k \in DOMAIN remote_attrs THEN remote_attrs[k] ELSE definition_json[k]]

\* The write made without looking at `updated`.
ShouldPut_Always(updated) == TRUE

\* `if updated:`
ShouldPut(updated) == updated

\* The write addressed to the first record instead of the tier's own.
PutTarget_First(json_by_id, definition_name) == SetMin(DOMAIN json_by_id)

\* definition_id = definition_ids[definition_name]
PutTarget(json_by_id, definition_name) == definition_ids(json_by_id, definition_name)

\* self.definitions.items(): the quality names in insertion order.
DefinitionNames(defs) ==
    LET idx == {i \in DOMAIN QualityNames : QualityNames[i] \in DOMAIN defs}
        rank(i) == Cardinality({j \in idx : j <= i})
    IN  [k \in 1..Cardinality(idx) |->
            QualityNames[CHOOSE i \in idx : rank(i) = k]]

\* from_remote: read the server into QualityDefinitions.
FromRemote ==
    /\ pc \in {"idle", "returned"}
    /\ run < MaxRuns
    /\ run' = run + 1
    /\ LET got == from_remote(server)
       IN  /\ remote' = got.definitions
           /\ pc' = IF got.raised THEN "read_failed" ELSE "fetched"
    /\ changed' = FALSE
    /\ puts' = <<>>
    /\ UNCHANGED <<server, remote_definitions_json, todo, ctor_vars, config_vars>>

\* update_remote up to the loop: its own read of the records.
UpdateRemoteBegin ==
    /\ pc = "fetched"
    /\ remote_definitions_json' = api_get(server)
    /\ todo' = DefinitionNames(definitions)
    /\ changed' = FALSE
    /\ pc' = "loop"
    /\ UNCHANGED <<server, remote, puts, run, ctor_vars, config_vars>>

\* One iteration whose tier needs no write.
TierUpToDate ==
    /\ pc = "loop"
    /\ todo # <<>>
    /\ Head(todo) \in DOMAIN remote
    /\ ~ShouldPut(get_update_remote_attrs(Head(todo), definitions[Head(todo)],
                                          remote[Head(todo)]).updated)
    /\ todo' = Tail(todo)
    /\ UNCHANGED <<server, remote, remote_definitions_json, changed, puts, pc, run,
                   ctor_vars, config_vars>>

\* One iteration whose tier is written with api_put.
TierUpdated ==
    /\ pc = "loop"
    /\ todo # <<>>
    /\ Head(todo) \in DOMAIN remote
    /\ LET definition_name == Head(todo)
           got == get_update_remote_attrs(definition_name, definitions[definition_name],
                                          remote[definition_name])
           definition_id == PutTarget(remote_definitions_json, definition_name)
           body == MergeBody(remote_definitions_json[definition_id], got.remote_attrs)
       IN  /\ ShouldPut(got.updated)
           /\ server' = api_put(server, definition_id, body)
           /\ puts' = Append(puts, [name |-> definition_name, id |-> definition_id,
                                    body |-> body, remote_attrs |-> got.remote_attrs])
    /\ changed' = TRUE
    /\ todo' = Tail(todo)
    /\ UNCHANGED <<remote, remote_definitions_json, pc, run, ctor_vars, config_vars>>

\* A local quality name the server has no record of, written as a new record.
TierMissing_CreatesRecord ==
    /\ pc = "loop"
    /\ todo # <<>>
    /\ Head(todo) \notin DOMAIN remote
    /\ server' = Append(server, [id |-> Len(server) + 1,
                                 quality |-> [name |-> Head(todo)],
                                 title |-> Head(todo),
                                 minSize |-> definitions[Head(todo)].min,
                                 preferredSize |-> definitions[Head(todo)].preferred])
    /\ todo' = Tail(todo)
    /\ UNCHANGED <<remote, remote_definitions_json, changed, puts, pc, run,
                   ctor_vars, config_vars>>

\* One iteration for a local quality name that is not in remote.definitions:
\* remote.definitions[definition_name] raises KeyError and the run ends.
TierMissing ==
    /\ pc = "loop"
    /\ todo # <<>>
    /\ Head(todo) \notin DOMAIN remote
    /\ pc' = "raised"
    /\ UNCHANGED <<server, remote, remote_definitions_json, todo, changed, puts, run,
                   ctor_vars, config_vars>>

\* The loop is over: return changed.
UpdateRemoteReturn ==
    /\ pc = "loop"
    /\ todo = <<>>
    /\ pc' = "returned"
    /\ UNCHANGED <<server, remote, remote_definitions_json, todo, changed, puts, run,
                   ctor_vars, config_vars>>

----------------------------------------------------------------------------
(* Configurations and servers of the model *)

\* Titles a user can give the tier of a quality name: not set, None, blank,
\* the quality name, another string.
LocalTitles(n) ==
    { [title |-> None, title_set |-> FALSE], [title |-> None, title_set |-> TRUE],
      [title |-> Some(""), title_set |-> TRUE], [title |-> Some(n), title_set |-> TRUE],
      [title |-> Some("Custom"), title_set |-> TRUE] }

\* The tiers a user can define for a quality name.
LocalTiers(n) ==
    { Tier(t.title, t.title_set, s[1], s[2], m) :
        t \in LocalTitles(n),
        s \in {<<1, 5>>, <<2, 5>>, <<1, 6>>},
        m \in {None, Some(100), Some(QUALITYDEFINITION_MAX)} }

\* The records a server can hold for a quality name under an ID.
ServerRecords(i, n) ==
    LET base == { [id |-> i, quality |-> [id |-> i + 10, name |-> n], title |-> t,
                   weight |-> i, minSize |-> 1, preferredSize |-> 5] :
                  t \in {n, "Custom"} }
    IN  base \cup { MergeBody(r, [maxSize |-> m]) :
                    r \in base, m \in {Some(100), Some(QUALITYDEFINITION_MAX)} }

\* The quality names of the reconciliation model.
RunNames == {QualityNames[1], QualityNames[2]}

Init ==
    /\ \E L \in SUBSET RunNames :
         definitions \in { d \in [L -> UNION {LocalTiers(n) : n \in L}] :
                             \A n \in L : d[n] \in LocalTiers(n) }
    /\ \E R \in SUBSET RunNames :
         LET ids == DefinitionNames([n \in R |-> TRUE])
         IN  server \in { srv \in [DOMAIN ids -> UNION {ServerRecords(i, ids[i]) : i \in DOMAIN ids}] :
                            \A i \in DOMAIN ids : srv[i] \in ServerRecords(i, ids[i]) }
    /\ trash_id = None
    /\ metadata_dir = <<>>
    /\ render_result = RenderPending
    /\ remote = <<>>
    /\ remote_definitions_json = <<>>
    /\ todo = <<>>
    /\ changed = FALSE
    /\ puts = <<>>
    /\ pc = "idle"
    /\ run = 0
    /\ CtorIdle

Next ==
    \/ FromRemote
    \/ UpdateRemoteBegin
    \/ TierUpToDate
    \/ TierUpdated
    \/ TierMissing
    \/ UpdateRemoteReturn

Spec == Init /\ [][Next]_vars

----------------------------------------------------------------------------
(* C1-C4, C9, C10: reconciliation *)

\* update_remote has taken its snapshot of the records in this run.
InUpdateRemote == pc \in {"loop", "returned", "raised"}

\* The quality name of the record a write was addressed to.
PutName(p) == remote_definitions_json[p.id].quality.name

\* The local quality names update_remote has compared in this run.
Visited == (DOMAIN definitions \cap DOMAIN remote) \ {todo[k] : k \in DOMAIN todo}

\* The fields of local tier n that differ from the remote tier's.
DifferingFields(n) ==
    {f \in {"title", "min", "preferred", "max"} : definitions[n][f] # remote[n][f]}

\* The differing fields that the configuration manages (a title that was
\* never set is not managed).
DifferingManaged(n) ==
    {f \in DifferingFields(n) : f = "title" => definitions[n].title_set}

\* The value a local field has on the wire: the field itself, the quality
\* name standing for a title that is None or blank.
WireValue(n, f) ==
    IF f # "title" THEN definitions[n][f]
    ELSE IF definitions[n].title \in {None, Some("")} THEN n
    ELSE Val(definitions[n].title)

\* C1: the second of two runs in succession returns changed == False and
\* issues no write.
C1_SecondRunUnchanged ==
    (pc = "returned" /\ run >= 2) => (changed = FALSE /\ puts = <<>>)

C3_RemoteOnlyUntouched ==
    InUpdateRemote =>
        /\ \A k \in DOMAIN puts : PutName(puts[k]) \in DOMAIN definitions
        /\ \A i \in DOMAIN remote_definitions_json :
             remote_definitions_json[i].quality.name \notin DOMAIN definitions
                => (i \in DOMAIN server /\ server[i] = remote_definitions_json[i])

\* A finished run with writes on a server that has a remote-only record.
C3_Witness ==
    /\ pc = "returned"
    /\ puts # <<>>
    /\ \E i \in DOMAIN remote_definitions_json :
         remote_definitions_json[i].quality.name \notin DOMAIN definitions

\* C4: every tier found changed gets exactly one PUT (an unchanged one none),
\* addressed to the ID of the record with its quality name; the body has the
\* raw record's fields, those of the differing local fields carrying the
\* local values and every other field as in the raw record.
C4_OnePutOfMergedRecord ==
    InUpdateRemote =>
        /\ \A k \in DOMAIN puts :
             LET p == puts[k]
                 raw == remote_definitions_json[p.id]
                 n == raw.quality.name
                 sent == {remote_map[f] : f \in DifferingManaged(n)}
             IN  /\ n \in DOMAIN definitions
                 /\ sent # {}
                 /\ DOMAIN p.body = (DOMAIN raw) \cup sent
                 /\ \A key \in (DOMAIN raw) \ sent : p.body[key] = raw[key]
                 /\ \A f \in DifferingManaged(n) :
                      p.body[remote_map[f]] = WireValue(n, f)
        /\ \A n \in Visited :
             Cardinality({k \in DOMAIN puts : PutName(puts[k]) = n})
                = IF DifferingManaged(n) # {} THEN 1 ELSE 0

\* A write made because only min differs, for a record that has a maxSize:
\* the body is the raw record with minSize replaced.
C4_Witness ==
    /\ InUpdateRemote
    /\ \E k \in DOMAIN puts :
         /\ DifferingManaged(PutName(puts[k])) = {"min"}
         /\ "maxSize" \in DOMAIN remote_definitions_json[puts[k].id]
         /\ "weight" \in DOMAIN puts[k].body

\* C9: a tier whose local title is None or blank and whose server title is
\* the quality name gets no title written.
C9_BlankTitleNotWritten ==
    InUpdateRemote =>
        \A k \in DOMAIN puts :
            LET n == PutName(puts[k])
            IN  ( /\ n \in DOMAIN definitions
                  /\ definitions[n].title \in {None, Some("")}
                  /\ remote_definitions_json[puts[k].id].title = n )
                => "title" \notin DOMAIN puts[k].remote_attrs

\* C10: no step of a run changes which record IDs and quality names the
\* server has; a local quality name without a record in the snapshot ends the
\* run with an error at that tier, the server keeping the writes made so far.
C10_NoCreateNoDelete ==
    [][ /\ DOMAIN server' = DOMAIN server
        /\ \A i \in DOMAIN server :
             /\ server'[i].id = server[i].id
             /\ server'[i].quality = server[i].quality
        /\ ( /\ pc = "loop"
             /\ todo # <<>>
             /\ \A i \in DOMAIN remote_definitions_json :
                  remote_definitions_json[i].quality.name # Head(todo) )
           => (pc' = "raised" /\ server' = server)
      ]_vars

\* A run that raised at a local name without a record after it had written
\* another tier.
C10_Witness ==
    /\ pc = "raised"
    /\ puts # <<>>
    /\ server # remote_definitions_json

====
